---- MODULE Spec2Model ----
(***************************************************************************)
(* A model of eatiht (src/eatiht/eatiht.py): extraction of the main        *)
(* article text of an HTML document.                                       *)
(*                                                                         *)
(* Texts and xpaths are sequences of one-character strings, so that the    *)
(* regular expressions, str.split, str.join, the `in' substring test and   *)
(* the slice [2:] act on characters as they do in the code.                *)
(*                                                                         *)
(* Two specifications:                                                     *)
(*   Spec     one call of extract() on a parsed document;                  *)
(*   SegSpec  the sentence segmentation applied to every text over a       *)
(*            small alphabet.                                              *)
(***************************************************************************)
EXTENDS Integers, Sequences, FiniteSets, TLC

VARIABLES
    pc,                \* position of the call / of the segmentation
    text,              \* SegSpec: the joined text of one node
    stripped,          \* SegSpec: bracket_pattern.sub('', text)
    frags,             \* SegSpec: sentence_token_pattern.split(stripped)
    kept,              \* SegSpec: the fragments passing s.endswith(...)
    min_str_length,    \* extract's argument: [given |-> BOOLEAN, value |-> Int]
    xpath_to_text,     \* the built xpath, held as its string-length threshold
    attempts,          \* history: the opens of the source and their outcomes
    parsed_html,       \* the parsed tree: the element children of <body>
    nodes_with_text,   \* positions of the selected elements, document order
    sent_xpath_pairs,  \* [s |-> sentence, x |-> xpath, e |-> enumerate index]
    freq,              \* get_xpath_frequency_distribution(xpaths)
    max_path,          \* freq[0]
    retained,          \* the pairs passing `max_path[0] in x'
    article_text,      \* ' '.join(...)
    result,            \* the returned string
    error              \* the exception that ended the call, "" if none

segvars == <<text, stripped, frags, kept>>
extvars == <<min_str_length, xpath_to_text, attempts, parsed_html,
             nodes_with_text, sent_xpath_pairs, freq, max_path, retained,
             article_text, result, error>>
vars == <<pc, segvars, extvars>>

----------------------------------------------------------------------------
(* Bounds of the model *)

\* longest text SegSpec segments
MaxTextLen == 5
\* most element children of <body>
MaxKids == 2
\* the explicit min_str_length the caller may pass (besides leaving it unset)
SmallMinLength == 3

\* the threshold written in TEXT_FINDER_XPATH
DEFAULT_MIN_LENGTH == 20

----------------------------------------------------------------------------
(* Characters *)

Digits == {"0", "1", "2", "3", "4", "5", "6", "7", "8", "9"}

\* what \s matches
Whitespace == {" ", "\n", "\t"}

\* [.!?] of the two positive lookbehinds
Punct == {".", "!", "?"}

\* ['"] of the second positive lookbehind
Quotes == {"'", "\""}

\* sentence_ending = ['.', '"', '?', '!', "'"]
sentence_ending == {".", "\"", "?", "!", "'"}

\* re.IGNORECASE on the letters the abbreviations are made of
Lower(c) ==
    CASE c = "M" -> "m"
      [] c = "R" -> "r"
      [] c = "S" -> "s"
      [] c = "J" -> "j"
      [] c = "D" -> "d"
      [] c = "P" -> "p"
      [] c = "O" -> "o"
      [] c = "F" -> "f"
      [] OTHER -> c

\* Mr\. Mrs\. Jr\. Dr\. Prof\. Sr\. of the negative lookbehinds
Abbreviations ==
    { <<"m", "r", ".">>, <<"m", "r", "s", ".">>, <<"j", "r", ".">>,
      <<"d", "r", ".">>, <<"p", "r", "o", "f", ".">>, <<"s", "r", ".">> }

\* the marker hard-coded in front of a node's first sentence
MARKER == <<"\n", "\n">>

----------------------------------------------------------------------------
(* bracket_pattern.sub('', t) *)

RECURSIVE SkipDigits(_, _)
\* \d* from position i: the first position that holds no digit
SkipDigits(t, i) ==
    IF i <= Len(t) /\ t[i] \in Digits THEN SkipDigits(t, i + 1) ELSE i

\* the last position of a match of \[\d*\] starting at i, 0 if none starts there
BracketMatchEnd(t, i) ==
    IF t[i] = "["
    THEN LET j == SkipDigits(t, i + 1)
         IN  IF j <= Len(t) /\ t[j] = "]" THEN j ELSE 0
    ELSE 0

RECURSIVE bracket_sub_from(_, _)
\* one left-to-right pass over the non-overlapping matches
bracket_sub_from(t, i) ==
    IF i > Len(t) THEN <<>>
    ELSE LET e == BracketMatchEnd(t, i)
         IN  IF e > 0 THEN bracket_sub_from(t, e + 1)
             ELSE <<t[i]>> \o bracket_sub_from(t, i + 1)

\* mutant: the digits are required (\d+), so a bare [] stays
bracket_sub_digits_required(t) ==
    LET RECURSIVE go(_)
        go(i) ==
            IF i > Len(t) THEN <<>>
            ELSE LET e == BracketMatchEnd(t, i)
                 IN  IF e > i + 1 THEN go(e + 1)
                     ELSE <<t[i]>> \o go(i + 1)
    IN  go(1)

bracket_sub(t) == bracket_sub_from(t, 1)

----------------------------------------------------------------------------
(* sentence_token_pattern.split(t) *)

\* (?<=[.!?]) | (?<=[.!?]['"]) at position i (before t[i])
PositiveLookbehind(t, i) ==
    \/ i > 1 /\ t[i - 1] \in Punct
    \/ i > 2 /\ t[i - 2] \in Punct /\ t[i - 1] \in Quotes

\* the text before position i ends with w, letters compared case-insensitively
EndsWithIgnoreCase(t, i, w) ==
    /\ i - 1 >= Len(w)
    /\ \A k \in 1..Len(w) : Lower(t[i - 1 - Len(w) + k]) = w[k]

\* (?<! Mr\. ) ... (?<! Sr\. ) at position i
NegativeLookbehinds(t, i) ==
    \A w \in Abbreviations : ~EndsWithIgnoreCase(t, i, w)

\* a match of the pattern starts at i
SplitAt(t, i) ==
    /\ i <= Len(t)
    /\ t[i] \in Whitespace
    /\ PositiveLookbehind(t, i)
    /\ NegativeLookbehinds(t, i)

RECURSIVE SkipWhitespace(_, _)
\* \s+ is greedy: the first position after the run that starts at i
SkipWhitespace(t, i) ==
    IF i <= Len(t) /\ t[i] \in Whitespace THEN SkipWhitespace(t, i + 1) ELSE i

RECURSIVE split_from(_, _, _)
\* the fragments of t from `start', scanning for the next match from i
split_from(t, start, i) ==
    IF i > Len(t) THEN << SubSeq(t, start, Len(t)) >>
    ELSE IF SplitAt(t, i)
         THEN << SubSeq(t, start, i - 1) >>
              \o split_from(t, SkipWhitespace(t, i), SkipWhitespace(t, i))
         ELSE split_from(t, start, i + 1)

sentence_split(t) == split_from(t, 1, 1)

\* mutant: the quote characters are missing from sentence_ending
ends_with_punctuation_only(s) == Len(s) > 0 /\ s[Len(s)] \in Punct

\* s.endswith(tuple(sentence_ending))
ends_with_sentence_ending(s) == Len(s) > 0 /\ s[Len(s)] \in sentence_ending

\* the fragments of one node's text that the comprehension emits, each with
\* its enumerate index e (0-based, counted before the filter)
RECURSIVE EmittedFrom(_, _)
EmittedFrom(fs, k) ==
    IF k > Len(fs) THEN <<>>
    ELSE (IF ends_with_sentence_ending(fs[k])
          THEN << [e |-> k - 1, s |-> fs[k]] >> ELSE <<>>)
         \o EmittedFrom(fs, k + 1)

Emitted(t) == EmittedFrom(sentence_split(bracket_sub(t)), 1)

----------------------------------------------------------------------------
(* Strings *)

RECURSIVE JoinWith(_, _)
\* sep.join(ss)
JoinWith(sep, ss) ==
    IF Len(ss) = 0 THEN <<>>
    ELSE IF Len(ss) = 1 THEN ss[1]
    ELSE ss[1] \o sep \o JoinWith(sep, Tail(ss))

RECURSIVE split_on_from(_, _, _, _)
\* p.split(sep) for a one-character separator
split_on_from(p, sep, start, i) ==
    IF i > Len(p) THEN << SubSeq(p, start, Len(p)) >>
    ELSE IF p[i] = sep
         THEN << SubSeq(p, start, i - 1) >> \o split_on_from(p, sep, i + 1, i + 1)
         ELSE split_on_from(p, sep, start, i + 1)

split_on(p, sep) == split_on_from(p, sep, 1, 1)

\* needle in hay, on the characters of two strings
Contains(hay, needle) ==
    \E i \in 0..(Len(hay) - Len(needle)) :
        SubSeq(hay, i + 1, i + Len(needle)) = needle

\* str(n) for 0 <= n <= 9
DigitChar(n) == <<"0", "1", "2", "3", "4", "5", "6", "7", "8", "9">>[n + 1]

----------------------------------------------------------------------------
(* The parsed tree.  A node is [tag, text, kids]: an element has a tag and *)
(* its children (elements and text nodes, in document order); a text node  *)
(* has the empty tag and its characters.  A position is the sequence of    *)
(* child indexes leading from <body> to a node.                            *)

Text(t) == [tag |-> <<>>, text |-> t, kids |-> <<>>]
Elem(tag, kids) == [tag |-> tag, text |-> <<>>, kids |-> kids]
IsText(n) == n.tag = <<>>
IsElem(n) == n.tag # <<>>

NoTree == Elem(<<"?">>, <<>>)

RECURSIVE NodeAt(_, _)
NodeAt(root, pos) ==
    IF pos = <<>> THEN root ELSE NodeAt(root.kids[Head(pos)], Tail(pos))

\* the parent's position
Front(pos) == SubSeq(pos, 1, Len(pos) - 1)

\* one step of getpath(): the tag, and [k] when a sibling has the same tag
PathStep(parent, k) ==
    LET n == parent.kids[k]
        same == { j \in 1..Len(parent.kids) : parent.kids[j].tag = n.tag }
        before == { j \in same : j < k }
    IN  IF Cardinality(same) > 1
        THEN n.tag \o <<"[">> \o DigitChar(Cardinality(before) + 1) \o <<"]">>
        ELSE n.tag

RECURSIVE PathBelow(_, _)
PathBelow(node, pos) ==
    IF pos = <<>> THEN <<>>
    ELSE <<"/">> \o PathStep(node, Head(pos))
         \o PathBelow(node.kids[Head(pos)], Tail(pos))

\* parsed_html.getroot().getroottree().getpath of the node at pos
xpath_finder(body, pos) ==
    <<"/", "h", "t", "m", "l", "/", "b", "o", "d", "y">> \o PathBelow(body, pos)

RECURSIVE ElementsFrom(_, _, _)
\* //body//* : the elements below `node' in document order, from child k on
ElementsFrom(node, pos, k) ==
    IF k > Len(node.kids) THEN <<>>
    ELSE (IF IsElem(node.kids[k])
          THEN << Append(pos, k) >>
               \o ElementsFrom(node.kids[k], Append(pos, k), 1)
          ELSE <<>>)
         \o ElementsFrom(node, pos, k + 1)

RECURSIVE AllText(_)
\* ''.join(n.xpath('.//text()')): every text node below n, document order
AllText(n) ==
    IF IsText(n) THEN n.text
    ELSE LET RECURSIVE kidsFrom(_)
             kidsFrom(k) ==
                 IF k > Len(n.kids) THEN <<>>
                 ELSE AllText(n.kids[k]) \o kidsFrom(k + 1)
         IN  kidsFrom(1)

\* XPath normalize-space(): leading and trailing whitespace stripped, every
\* inner run replaced by one space
RECURSIVE NormalizeFrom(_, _)
NormalizeFrom(t, i) ==
    IF i > Len(t) THEN <<>>
    ELSE IF t[i] \in Whitespace
         THEN LET j == SkipWhitespace(t, i)
              IN  IF j > Len(t) THEN <<>> ELSE <<" ">> \o NormalizeFrom(t, j)
         ELSE <<t[i]>> \o NormalizeFrom(t, i + 1)

normalize_space(t) == NormalizeFrom(t, SkipWhitespace(t, 1))

\* mutant: self::a is missing from the list
EXCLUDED_TAGS_without_a ==
    { <<"s", "c", "r", "i", "p", "t">>, <<"s", "t", "y", "l", "e">>, <<"i">>,
      <<"b">>, <<"s", "t", "r", "o", "n", "g">>, <<"s", "p", "a", "n">> }

\* the tags named in not(self::script or ... or self::a)
EXCLUDED_TAGS ==
    { <<"s", "c", "r", "i", "p", "t">>, <<"s", "t", "y", "l", "e">>, <<"i">>,
      <<"b">>, <<"s", "t", "r", "o", "n", "g">>, <<"s", "p", "a", "n">>,
      <<"a">> }

\* the element n is the parent (/..) of a text() node with
\* string-length(normalize-space()) > min_length, and passes the not(...)
text_finder_selects(n, min_length) ==
    /\ n.tag \notin EXCLUDED_TAGS
    /\ \E k \in 1..Len(n.kids) :
          /\ IsText(n.kids[k])
          /\ Len(normalize_space(n.kids[k].text)) > min_length

\* parsed_html.xpath(xpath_to_text): a node-set, in document order
xpath_nodes(body, min_length) ==
    LET all == ElementsFrom(body, <<>>, 1)
        sel(pos) == text_finder_selects(NodeAt(body, pos), min_length)
    IN  SelectSeq(all, sel)

\* build_text_finder with the default leading_xpath: the threshold of the
\* xpath it returns
build_text_finder(msl) ==
    IF ~msl.given THEN DEFAULT_MIN_LENGTH ELSE msl.value

----------------------------------------------------------------------------
(* get_sentence_xpath_tuples: the comprehension *)

\* the tuples of one node: '\n\n' + s when e == 0
PairsOfNode(body, pos) ==
    LET em == Emitted(AllText(NodeAt(body, pos)))
    IN  [k \in 1..Len(em) |->
            [s |-> IF em[k].e = 0 THEN MARKER \o em[k].s ELSE em[k].s,
             x |-> xpath_finder(body, pos),
             e |-> em[k].e]]

RECURSIVE PairsFrom(_, _, _)
PairsFrom(body, nodes, k) ==
    IF k > Len(nodes) THEN <<>>
    ELSE PairsOfNode(body, nodes[k]) \o PairsFrom(body, nodes, k + 1)

----------------------------------------------------------------------------
(* get_xpath_frequency_distribution *)

\* '/'.join(p.split('/')[:-1])
parent_path(p) ==
    LET sp == split_on(p, "/")
    IN  JoinWith(<<"/">>, SubSeq(sp, 1, Len(sp) - 1))

RECURSIVE CounterFrom(_, _, _)
\* Counter(parentpaths): the distinct paths in first-insertion order, each
\* with the number of its occurrences
CounterFrom(ps, k, acc) ==
    IF k > Len(ps) THEN acc
    ELSE LET hit == { i \in 1..Len(acc) : acc[i].path = ps[k] }
         IN  IF hit = {}
             THEN CounterFrom(ps, k + 1,
                              Append(acc, [path |-> ps[k], count |-> 1]))
             ELSE CounterFrom(ps, k + 1,
                      [i \in 1..Len(acc) |->
                          IF i \in hit
                          THEN [acc[i] EXCEPT !.count = @ + 1] ELSE acc[i]])

Counter(ps) == CounterFrom(ps, 1, <<>>)

\* mutant: an unstable sort, an item goes before the items of equal count
insert_before_equal(sorted, item) ==
    LET ahead == { i \in 1..Len(sorted) : sorted[i].count > item.count }
        n == Cardinality(ahead)
    IN  SubSeq(sorted, 1, n) \o <<item>> \o SubSeq(sorted, n + 1, Len(sorted))

\* one step of the stable sort by descending count: the item goes after
\* every item whose count is not smaller
insert_by_count(sorted, item) ==
    LET ahead == { i \in 1..Len(sorted) : sorted[i].count >= item.count }
        n == Cardinality(ahead)
    IN  SubSeq(sorted, 1, n) \o <<item>> \o SubSeq(sorted, n + 1, Len(sorted))

RECURSIVE most_common_from(_, _, _)
\* Counter.most_common(): sorted(items, key=count, reverse=True), stable
most_common_from(items, k, sorted) ==
    IF k > Len(items) THEN sorted
    ELSE most_common_from(items, k + 1, insert_by_count(sorted, items[k]))

most_common(items) == most_common_from(items, 1, <<>>)

RECURSIVE Distinct(_)
Distinct(ps) ==
    IF ps = <<>> THEN <<>>
    ELSE LET rest == Distinct(SubSeq(ps, 1, Len(ps) - 1))
             last == ps[Len(ps)]
         IN  IF \E i \in 1..Len(rest) : rest[i] = last
             THEN rest ELSE Append(rest, last)

\* mutant: every xpath is counted once, however many tuples carry it
frequency_of_distinct_paths(paths) ==
    most_common(Counter([k \in 1..Len(Distinct(paths)) |->
                            parent_path(Distinct(paths)[k])]))

get_xpath_frequency_distribution(paths) ==
    most_common(Counter([k \in 1..Len(paths) |-> parent_path(paths[k])]))

----------------------------------------------------------------------------
(* The documents extract() is run on *)

P == <<"p">>
PRE == <<"p", "r", "e">>
EM == <<"e", "m">>
A == <<"a">>
BODY == <<"b", "o", "d", "y">>

\* "Ab. Cd."
TwoSentences == <<"A", "b", ".", " ", "C", "d", ".">>
\* "Ab cd."
OneSentence == <<"A", "b", " ", "c", "d", ".">>
\* "ab cd"
NoEnding == <<"a", "b", " ", "c", "d">>
\* "ab."
ShortText == <<"a", "b", ".">>
\* "\n\nIt is a long sentence."
LongText ==
    <<"\n", "\n", "I", "t", " ", "i", "s", " ", "a", " ", "l", "o", "n", "g",
      " ", "s", "e", "n", "t", "e", "n", "c", "e", ".">>

DirectTexts == {TwoSentences, OneSentence, NoEnding, ShortText, LongText}

Leaves ==
    { Elem(EM, <<Text(TwoSentences)>>), Elem(EM, <<Text(OneSentence)>>),
      Elem(A, <<Text(OneSentence)>>) }

\* the element children <body> may have
KidMenu ==
    { Elem(tag, <<Text(t)>>) : tag \in {P, PRE}, t \in DirectTexts }
    \cup { Elem(tag, <<e>>) : tag \in {P, PRE}, e \in Leaves }
    \cup { Elem(P, <<e1, e2>>) :
             e1 \in { Elem(EM, <<Text(OneSentence)>>) },
             e2 \in { Elem(EM, <<Text(OneSentence)>>),
                      Elem(A, <<Text(OneSentence)>>) } }
    \cup { Elem(P, <<Text(ShortText), Elem(A, <<Text(OneSentence)>>), Text(t)>>) :
             t \in {ShortText, OneSentence} }

Documents ==
    { Elem(BODY, kids) : kids \in UNION { [1..n -> KidMenu] : n \in 0..MaxKids } }

NoPath == [path |-> <<>>, count |-> 0]

----------------------------------------------------------------------------
(* SegSpec: the segmentation of every text over SegAlphabet *)

SegAlphabet == {"D", "r", ".", "'", " ", "[", "]", "1"}

SegTexts == UNION { [1..n -> SegAlphabet] : n \in 0..MaxTextLen }

NoCall ==
    /\ min_str_length = [given |-> FALSE, value |-> 0]
    /\ xpath_to_text = 0
    /\ attempts = <<>>
    /\ parsed_html = NoTree
    /\ nodes_with_text = <<>>
    /\ sent_xpath_pairs = <<>>
    /\ freq = <<>>
    /\ max_path = NoPath
    /\ retained = <<>>
    /\ article_text = <<>>
    /\ result = <<>>
    /\ error = ""

SegInit ==
    /\ pc = "text"
    /\ text \in SegTexts
    /\ stripped = <<>>
    /\ frags = <<>>
    /\ kept = <<>>
    /\ NoCall

\* bracket_pattern.sub('', ''.join(...))
SubBrackets ==
    /\ pc = "text"
    /\ stripped' = bracket_sub(text)
    /\ pc' = "stripped"
    /\ UNCHANGED <<text, frags, kept, extvars>>

\* sentence_token_pattern.split(...)
SplitSentences ==
    /\ pc = "stripped"
    /\ frags' = sentence_split(stripped)
    /\ pc' = "split"
    /\ UNCHANGED <<text, stripped, kept, extvars>>

\* if s.endswith(tuple(sentence_ending))
FilterSentences ==
    /\ pc = "split"
    /\ kept' = SelectSeq(frags, ends_with_sentence_ending)
    /\ pc' = "segmented"
    /\ UNCHANGED <<text, stripped, frags, extvars>>

SegNext == SubBrackets \/ SplitSentences \/ FilterSentences

SegSpec == SegInit /\ [][SegNext]_vars

----------------------------------------------------------------------------
(* Spec: one call of extract() *)

NoSegmentation ==
    /\ text = <<>>
    /\ stripped = <<>>
    /\ frags = <<>>
    /\ kept = <<>>

Init ==
    /\ pc = "start"
    /\ min_str_length \in { [given |-> FALSE, value |-> 0],
                            [given |-> TRUE, value |-> SmallMinLength] }
    /\ xpath_to_text = 0
    /\ attempts = <<>>
    /\ parsed_html = NoTree
    /\ nodes_with_text = <<>>
    /\ sent_xpath_pairs = <<>>
    /\ freq = <<>>
    /\ max_path = NoPath
    /\ retained = <<>>
    /\ article_text = <<>>
    /\ result = <<>>
    /\ error = ""
    /\ NoSegmentation

Attempt(how, outcome) == [how |-> how, outcome |-> outcome]

\* xpath_to_text = build_text_finder(xpath_to_text, min_str_length)
BuildTextFinder ==
    /\ pc = "start"
    /\ xpath_to_text' = build_text_finder(min_str_length)
    /\ pc' = "open"
    /\ UNCHANGED <<segvars, min_str_length, attempts, parsed_html,
                   nodes_with_text, sent_xpath_pairs, freq, max_path,
                   retained, article_text, result, error>>

\* html.parse(filename_url_or_filelike, ...) succeeds
PrimaryParseOk ==
    /\ pc = "open"
    /\ \E d \in Documents : parsed_html' = d
    /\ attempts' = Append(attempts, Attempt("html.parse", "ok"))
    /\ pc' = "parsed"
    /\ UNCHANGED <<segvars, min_str_length, xpath_to_text, nodes_with_text,
                   sent_xpath_pairs, freq, max_path, retained, article_text,
                   result, error>>

\* html.parse raises IOError: control enters the except clause
PrimaryParseIOError ==
    /\ pc = "open"
    /\ attempts' = Append(attempts, Attempt("html.parse", "IOError"))
    /\ pc' = "except"
    /\ UNCHANGED <<segvars, min_str_length, xpath_to_text, parsed_html,
                   nodes_with_text, sent_xpath_pairs, freq, max_path,
                   retained, article_text, result, error>>

\* mutant: the except clause catches every exception
PrimaryParseOtherError_caught ==
    /\ pc = "open"
    /\ attempts' = Append(attempts, Attempt("html.parse", "OtherError"))
    /\ pc' = "except"
    /\ UNCHANGED <<segvars, min_str_length, xpath_to_text, parsed_html,
                   nodes_with_text, sent_xpath_pairs, freq, max_path,
                   retained, article_text, result, error>>

\* html.parse raises something that is no IOError: not caught
PrimaryParseOtherError ==
    /\ pc = "open"
    /\ attempts' = Append(attempts, Attempt("html.parse", "OtherError"))
    /\ error' = "OtherError"
    /\ pc' = "raised"
    /\ UNCHANGED <<segvars, min_str_length, xpath_to_text, parsed_html,
                   nodes_with_text, sent_xpath_pairs, freq, max_path,
                   retained, article_text, result>>

\* page = requests.get(filename_url_or_filelike) succeeds
RequestsGetOk ==
    /\ pc = "except"
    /\ attempts' = Append(attempts, Attempt("requests.get", "ok"))
    /\ pc' = "fetched"
    /\ UNCHANGED <<segvars, min_str_length, xpath_to_text, parsed_html,
                   nodes_with_text, sent_xpath_pairs, freq, max_path,
                   retained, article_text, result, error>>

\* requests.get raises: except Exception as e: raise e
RequestsGetError ==
    /\ pc = "except"
    /\ attempts' = Append(attempts, Attempt("requests.get", "Exception"))
    /\ error' = "RequestException"
    /\ pc' = "raised"
    /\ UNCHANGED <<segvars, min_str_length, xpath_to_text, parsed_html,
                   nodes_with_text, sent_xpath_pairs, freq, max_path,
                   retained, article_text, result>>

\* parsed_html = html.parse(BytesIO(page.content), ...)
ParsePageContent ==
    /\ pc = "fetched"
    /\ \E d \in Documents : parsed_html' = d
    /\ pc' = "parsed"
    /\ UNCHANGED <<segvars, min_str_length, xpath_to_text, attempts,
                   nodes_with_text, sent_xpath_pairs, freq, max_path,
                   retained, article_text, result, error>>

\* the parse of the fetched bytes raises: nothing catches it
ParsePageContentError ==
    /\ pc = "fetched"
    /\ error' = "OtherError"
    /\ pc' = "raised"
    /\ UNCHANGED <<segvars, min_str_length, xpath_to_text, attempts,
                   parsed_html, nodes_with_text, sent_xpath_pairs, freq,
                   max_path, retained, article_text, result>>

\* nodes_with_text = parsed_html.xpath(xpath_to_text)
SelectNodes ==
    /\ pc = "parsed"
    /\ nodes_with_text' = xpath_nodes(parsed_html, xpath_to_text)
    /\ pc' = "selected"
    /\ UNCHANGED <<segvars, min_str_length, xpath_to_text, attempts,
                   parsed_html, sent_xpath_pairs, freq, max_path, retained,
                   article_text, result, error>>

\* sent_xpath_pairs = [ ... ]; return sent_xpath_pairs
BuildPairs ==
    /\ pc = "selected"
    /\ sent_xpath_pairs' = PairsFrom(parsed_html, nodes_with_text, 1)
    /\ pc' = "pairs"
    /\ UNCHANGED <<segvars, min_str_length, xpath_to_text, attempts,
                   parsed_html, nodes_with_text, freq, max_path, retained,
                   article_text, result, error>>

xpaths == [k \in 1..Len(sent_xpath_pairs) |-> sent_xpath_pairs[k].x]

\* mutant: an empty ranking falls back to ('', 0) instead of raising
RankPaths_default ==
    /\ pc = "pairs"
    /\ freq' = get_xpath_frequency_distribution(xpaths)
    /\ max_path' = IF freq' = <<>> THEN NoPath ELSE freq'[1]
    /\ pc' = "ranked"
    /\ UNCHANGED <<segvars, min_str_length, xpath_to_text, attempts,
                   parsed_html, nodes_with_text, sent_xpath_pairs, retained,
                   article_text, result, error>>

\* max_path = get_xpath_frequency_distribution(xpaths)[0]
RankPaths ==
    /\ pc = "pairs"
    /\ freq' = get_xpath_frequency_distribution(xpaths)
    /\ IF freq' = <<>>
       THEN /\ error' = "IndexError"
            /\ pc' = "raised"
            /\ UNCHANGED max_path
       ELSE /\ max_path' = freq'[1]
            /\ pc' = "ranked"
            /\ UNCHANGED error
    /\ UNCHANGED <<segvars, min_str_length, xpath_to_text, attempts,
                   parsed_html, nodes_with_text, sent_xpath_pairs, retained,
                   article_text, result>>

\* mutant: the operands of `in' are swapped
path_in_swapped(path, x) == Contains(path, x)

\* max_path[0] in x
path_in(path, x) == Contains(x, path)

\* mutant: article_text[1:]
drop_one(t) == SubSeq(t, 2, Len(t))

\* article_text[2:]
drop_two(t) == SubSeq(t, 3, Len(t))

\* article_text = ' '.join([...]); return article_text[2:]
Assemble ==
    /\ pc = "ranked"
    /\ LET keep(pr) == path_in(max_path.path, pr.x)
       IN  retained' = SelectSeq(sent_xpath_pairs, keep)
    /\ article_text' =
           JoinWith(<<" ">>, [k \in 1..Len(retained') |-> retained'[k].s])
    /\ result' = drop_two(article_text')
    /\ pc' = "returned"
    /\ UNCHANGED <<segvars, min_str_length, xpath_to_text, attempts,
                   parsed_html, nodes_with_text, sent_xpath_pairs, freq,
                   max_path, error>>

Next ==
    \/ BuildTextFinder
    \/ PrimaryParseOk
    \/ PrimaryParseIOError
    \/ PrimaryParseOtherError
    \/ RequestsGetOk
    \/ RequestsGetError
    \/ ParsePageContent
    \/ ParsePageContentError
    \/ SelectNodes
    \/ BuildPairs
    \/ RankPaths
    \/ Assemble

Spec == Init /\ [][Next]_vars

----------------------------------------------------------------------------
(* Properties of the segmentation (SegSpec) *)

\* s holds '[' digits ']' from position i to position j
IsMarker(s, i, j) ==
    /\ i < j
    /\ s[i] = "["
    /\ s[j] = "]"
    /\ \A k \in (i + 1)..(j - 1) : s[k] \in Digits

HasMarker(s) == \E i, j \in 1..Len(s) : IsMarker(s, i, j)

\* a marker of t directly follows a '[' and zero or more digits
HasNestedMarker(t) ==
    \E i, j, m \in 1..Len(t) :
        /\ i < j
        /\ t[i] = "["
        /\ \A k \in (i + 1)..(j - 1) : t[k] \in Digits
        /\ IsMarker(t, j, m)

RECURSIVE CollapseFrom(_, _)
\* every whitespace run of t replaced by one space
CollapseFrom(t, i) ==
    IF i > Len(t) THEN <<>>
    ELSE IF t[i] \in Whitespace
         THEN <<" ">> \o CollapseFrom(t, SkipWhitespace(t, i))
         ELSE <<t[i]>> \o CollapseFrom(t, i + 1)

Collapse(t) == CollapseFrom(t, 1)

\* C6 as claimed: no fragment produced by segmentation contains a bracketed
\* marker '[' digits ']', whatever the input text.
C6_NoMarkerInAnyFragment ==
    pc = "segmented" => \A k \in 1..Len(kept) : ~HasMarker(kept[k])

\* C6 amended: when no marker of the input directly follows a '[' and zero
\* or more digits (no nesting), no fragment contains a bracketed marker.
C6_NoMarkerUnlessNested ==
    (pc = "segmented" /\ ~HasNestedMarker(text))
        => \A k \in 1..Len(kept) : ~HasMarker(kept[k])

C6_Witness ==
    /\ pc = "segmented"
    /\ HasMarker(text)
    /\ ~HasNestedMarker(text)
    /\ Len(kept) >= 1

\* C7: for a text whose last character is a full stop no fragment is
\* dropped, and the fragments joined with single spaces equal, after
\* collapsing whitespace runs, the text without its bracketed markers,
\* collapsed the same way.
C7_RoundTrip ==
    (pc = "segmented" /\ Len(text) > 0 /\ text[Len(text)] = ".")
        => /\ kept = frags
           /\ Collapse(JoinWith(<<" ">>, kept)) = Collapse(stripped)

C7_Witness ==
    /\ pc = "segmented"
    /\ Len(text) > 0 /\ text[Len(text)] = "."
    /\ Len(kept) >= 2
    /\ stripped # text

----------------------------------------------------------------------------
(* Properties of extract() (Spec) *)

StartsWith(t, prefix) ==
    Len(t) >= Len(prefix) /\ SubSeq(t, 1, Len(prefix)) = prefix

\* nodes_with_text has been assigned
Selected ==
    \/ pc \in {"selected", "pairs", "ranked", "returned"}
    \/ pc = "raised" /\ error = "IndexError"

\* the call is over
Finished == pc \in {"returned", "raised"}

InSeq(x, seq) == \E k \in 1..Len(seq) : seq[k] = x

\* the positions of every element below <body>, from the shape of the tree
RECURSIVE PositionsBelow(_, _)
PositionsBelow(node, pos) ==
    UNION { {Append(pos, k)} \cup PositionsBelow(node.kids[k], Append(pos, k)) :
              k \in { j \in 1..Len(node.kids) : IsElem(node.kids[j]) } }

\* C1 as claimed: a document with at least one qualifying candidate makes
\* extract return a non-empty string, also when no candidate's text holds a
\* sentence-terminal character.
C1_CandidateGivesText ==
    (Finished /\ nodes_with_text # <<>>)
        => (pc = "returned" /\ result # <<>>)

\* C1 amended: a document in which at least one qualifying candidate yields
\* at least one sentence unit makes extract return a non-empty string.
C1_UnitGivesText ==
    (Finished /\ sent_xpath_pairs # <<>>)
        => (pc = "returned" /\ result # <<>>)

C1_Witness ==
    /\ pc = "returned"
    /\ result # <<>>
    /\ Len(nodes_with_text) >= 2
    /\ \E k \in 1..Len(nodes_with_text) :
          Emitted(AllText(NodeAt(parsed_html, nodes_with_text[k]))) = <<>>

\* C2: when no element passes the minimum-text-length filter, extract never
\* returns a string: the call ends in the error raised for the empty ranking.
C2_NoCandidateRaises ==
    (Selected /\ nodes_with_text = <<>>)
        => /\ pc \notin {"ranked", "returned"}
           /\ result = <<>>
           /\ Finished => (pc = "raised" /\ error = "IndexError")

C2_Witness ==
    /\ pc = "raised"
    /\ error = "IndexError"
    /\ nodes_with_text = <<>>
    /\ Len(parsed_html.kids) >= 1

\* a is a prefix of b, step by step
StepPrefix(a, b) == Len(a) <= Len(b) /\ SubSeq(b, 1, Len(a)) = a

\* the address x is P or a descendant of P, on the sequences of path steps
WithinSubtree(x, path) == StepPrefix(split_on(path, "/"), split_on(x, "/"))

\* C3: the units extract keeps are exactly those whose address is the
\* top-ranked parent P or a descendant of P (a prefix relation on the path
\* steps), in original order.
C3_KeepsExactlySubtree ==
    pc = "returned" =>
        LET inside(pr) == WithinSubtree(pr.x, max_path.path)
        IN  retained = SelectSeq(sent_xpath_pairs, inside)

\* the index of the first xpath whose parent is `path'
FirstSeen(path) ==
    CHOOSE k \in 1..Len(xpaths) :
        /\ parent_path(xpaths[k]) = path
        /\ \A j \in 1..(k - 1) : parent_path(xpaths[j]) # path

\* C4: the ranking is ordered by descending count, parents of equal count
\* in the order of their first occurrence in the input; the container
\* extract selects is the first-seen parent among those of maximal count.
C4_RankingOrder ==
    /\ \A i, j \in 1..Len(freq) :
          i < j =>
            \/ freq[i].count > freq[j].count
            \/ /\ freq[i].count = freq[j].count
               /\ FirstSeen(freq[i].path) < FirstSeen(freq[j].path)
    /\ pc \in {"ranked", "returned"} =>
          /\ \E i \in 1..Len(freq) : freq[i] = max_path
          /\ \A j \in 1..Len(freq) :
                \/ freq[j].count < max_path.count
                \/ /\ freq[j].count = max_path.count
                   /\ FirstSeen(max_path.path) <= FirstSeen(freq[j].path)

C4_Witness ==
    /\ pc = "returned"
    /\ Len(freq) >= 2
    /\ freq[1].count = freq[2].count
    /\ max_path = freq[1]

\* the number of characters of article_text before the k-th retained unit
RECURSIVE OffsetOf(_)
OffsetOf(k) ==
    IF k = 1 THEN 0 ELSE OffsetOf(k - 1) + Len(retained[k - 1].s) + 1

\* the parts of C5 about the marker: the first unit each candidate emits is
\* the one that carries the marker, the two characters removed from the
\* joined text are the marker of the first retained unit, and the first
\* sentence of every later contributing element follows a double newline
MarkerDiscipline ==
    /\ \A k \in 1..Len(sent_xpath_pairs) :
          LET first == k = 1 \/ sent_xpath_pairs[k - 1].x # sent_xpath_pairs[k].x
          IN  /\ first <=> sent_xpath_pairs[k].e = 0
              /\ first => StartsWith(sent_xpath_pairs[k].s, MARKER)
    /\ pc = "returned" =>
          /\ retained # <<>>
          /\ retained[1].e = 0
          /\ article_text = MARKER \o result
          /\ retained[1].s = MARKER \o SubSeq(result, 1, Len(retained[1].s) - 2)
          /\ \A k \in 2..Len(retained) :
                retained[k].e = 0 =>
                    /\ result[OffsetOf(k) - 2] = " "
                    /\ result[OffsetOf(k) - 1] = "\n"
                    /\ result[OffsetOf(k)] = "\n"

CandidatesUnder(path) ==
    { k \in 1..Len(nodes_with_text) :
        xpath_finder(parsed_html, Front(nodes_with_text[k])) = path }

\* C8 as claimed: the count of a parent address in the frequency table is
\* the number of candidate elements whose immediate parent it is, however
\* many sentence units a candidate gives.
C8_CountsCandidates ==
    \A i \in 1..Len(freq) :
        freq[i].count = Cardinality(CandidatesUnder(freq[i].path))

\* C8 amended: the count of a parent address in the frequency table is the
\* number of sentence units emitted by the candidate elements whose
\* immediate parent it is; a candidate that emits n units contributes n.
C8_CountsUnits ==
    /\ \A i \in 1..Len(freq) :
          freq[i].count =
              Cardinality({ u \in 1..Len(sent_xpath_pairs) :
                  \E k \in CandidatesUnder(freq[i].path) :
                      xpath_finder(parsed_html, nodes_with_text[k])
                          = sent_xpath_pairs[u].x })
    /\ pc \in {"ranked", "returned"} =>
          \A u \in 1..Len(sent_xpath_pairs) :
              \E i \in 1..Len(freq) :
                  \E k \in CandidatesUnder(freq[i].path) :
                      xpath_finder(parsed_html, nodes_with_text[k])
                          = sent_xpath_pairs[u].x

C8_Witness ==
    /\ pc = "ranked"
    /\ \E i \in 1..Len(freq) :
          freq[i].count > Cardinality(CandidatesUnder(freq[i].path))

\* the text nodes that are children of n, concatenated
DirectText(n) ==
    LET texts == SelectSeq(n.kids, IsText)
    IN  JoinWith(<<>>, [k \in 1..Len(texts) |-> texts[k].text])

\* C9 as claimed: an element is selected exactly when its tag is not
\* excluded and the whitespace-normalized concatenation of all its
\* immediate text is longer than the threshold.
C9_SelectsByJoinedText ==
    Selected =>
        \A pos \in PositionsBelow(parsed_html, <<>>) :
            InSeq(pos, nodes_with_text) <=>
                LET n == NodeAt(parsed_html, pos)
                IN  /\ n.tag \notin
                         { <<"s", "c", "r", "i", "p", "t">>,
                           <<"s", "t", "y", "l", "e">>, <<"i">>, <<"b">>,
                           <<"s", "t", "r", "o", "n", "g">>,
                           <<"s", "p", "a", "n">>, <<"a">> }
                    /\ Len(normalize_space(DirectText(n))) > xpath_to_text

\* C9 amended: an element below body is selected exactly when its tag is
\* not one of script, style, i, b, strong, span, a and at least one of its
\* own text nodes is, whitespace-normalized, longer than the threshold
\* (20 unless min_str_length is given); text nodes are not added up.
C9_SelectsBySingleTextNode ==
    Selected =>
        /\ xpath_to_text =
              (IF min_str_length.given THEN min_str_length.value ELSE 20)
        /\ \A pos \in PositionsBelow(parsed_html, <<>>) :
            InSeq(pos, nodes_with_text) <=>
                LET n == NodeAt(parsed_html, pos)
                IN  /\ n.tag \notin
                         { <<"s", "c", "r", "i", "p", "t">>,
                           <<"s", "t", "y", "l", "e">>, <<"i">>, <<"b">>,
                           <<"s", "t", "r", "o", "n", "g">>,
                           <<"s", "p", "a", "n">>, <<"a">> }
                    /\ \E k \in 1..Len(n.kids) :
                          /\ IsText(n.kids[k])
                          /\ Len(normalize_space(n.kids[k].text)) > xpath_to_text

C9_Witness ==
    /\ pc = "selected"
    /\ \E pos \in PositionsBelow(parsed_html, <<>>) :
          /\ ~InSeq(pos, nodes_with_text)
          /\ NodeAt(parsed_html, pos).tag # A
          /\ Len(normalize_space(DirectText(NodeAt(parsed_html, pos))))
                > xpath_to_text
    /\ nodes_with_text # <<>>

\* C10: the source is opened at most twice; requests.get is tried only
\* after html.parse has raised IOError, once, never after a successful
\* parse; when it fails too the call ends in its error; a failure of
\* html.parse that is no IOError ends the call without a fallback.
C10_OneFallback ==
    /\ Len(attempts) <= 2
    /\ \A k \in 1..Len(attempts) :
          IF k = 1
          THEN attempts[k].how = "html.parse"
          ELSE /\ attempts[k].how = "requests.get"
               /\ attempts[1].outcome = "IOError"
    /\ (Len(attempts) >= 1 /\ attempts[1].outcome = "OtherError")
          => (Len(attempts) = 1 /\ pc = "raised" /\ error = "OtherError")
    /\ (Len(attempts) = 2 /\ attempts[2].outcome = "Exception")
          => (pc = "raised" /\ error = "RequestException")
    /\ pc = "raised" => result = <<>>

C10_Witness ==
    /\ pc = "raised"
    /\ Len(attempts) = 2
    /\ attempts[2].outcome = "Exception"

====
